---- MODULE Spec2Model ----
(***************************************************************************)
(* Three programs of the repository, each with its own specification:      *)
(*   Spec        snake-dqn/dqn.js: createDeepQNetwork and copyWeights, and  *)
(*               the way dqn_test.js drives them (create two networks,       *)
(*               copy, train the online network);                            *)
(*   SpecScript  quantization/quantize_evaluate.sh, one run of the script;   *)
(*   SpecUI      the cart-pole UI: the click handlers of its buttons.        *)
(* The variables of the programs a specification is not about stay at their  *)
(* initial values in it.                                                     *)
(***************************************************************************)
EXTENDS Integers, Sequences, FiniteSets, TLC

VARIABLES
    args,       \* dqn: the arguments (h, w, stateFrames, numActions) of the calls
    outcome,    \* dqn: per network variable, how its createDeepQNetwork call ended
    net,        \* dqn: per network variable, the tf.LayersModel it holds
    heap,       \* dqn: the value stored in each weight variable of the ML library
    trains,     \* dqn: per network, the number of fit() calls made on it
    snap        \* dqn: per network, the weights read right after it was a copy's
                \*      destination (targetWeights1 of the test), or NoSnap

VARIABLES
    env,        \* script: the argument and the machine the script runs on
    shPc,       \* script: the command the script is about to run, or "exited"
    exitStatus, \* script: its exit status once exited, -1 before
    fsys,       \* script: the directories the script creates and deletes
    installed,  \* script: the packages pip has installed during the run
    log,        \* script: the quantization and evaluation steps started so far
    venvCreated \* script: whether this run created the virtualenv directory

VARIABLES
    policyNet,  \* ui: the module-global policy network: "undefined", "null" or "net"
    stored,     \* ui: whether IndexedDB holds a saved model
    disabled,   \* ui: the disabled property of the four buttons
    pc,         \* ui: per click handler, the await it is suspended at, or "idle"
    loop,       \* ui: the locals of the train and test loops
    appStatus,  \* ui: the text logStatus wrote last
    ran         \* ui: per handler, how its last run ended and whether it called enableUI

dqnVars == <<args, outcome, net, heap, trains, snap>>

shVars == <<env, shPc, exitStatus, fsys, installed, log, venvCreated>>

uiVars == <<policyNet, stored, disabled, pc, loop, appStatus, ran>>

vars == <<dqnVars, shVars, uiVars>>

----------------------------------------------------------------------------
(* Bounds of the model.                                                     *)

\* Largest board height and width tried.
MaxDim == 5
\* Largest number of state frames tried.
MaxFrames == 2
\* Largest number of actions tried.
MaxActions == 3
\* Number of distinct random initialisations of a network's kernels.
MaxSeed == 2
\* Largest number of training calls on one network.
MaxTrain == 1

----------------------------------------------------------------------------
(* JavaScript values passed as arguments.  A value is a record: t is its    *)
(* type tag and n an integer: the number itself ("int"), the number n + 0.8 *)
(* ("float", as 10.8 in the test), the decimal string of n ("str", as '10'),*)
(* and 0 for null and undefined.                                            *)

JsInt(k) == [t |-> "int", n |-> k]

JsFloat(k) == [t |-> "float", n |-> k]

JsStr(k) == [t |-> "str", n |-> k]

JsNull == [t |-> "null", n |-> 0]

JsUndefined == [t |-> "undefined", n |-> 0]

\* The values that are not integers, tried for every argument.
JsOdd == {JsFloat(MaxActions), JsStr(MaxActions), JsNull, JsUndefined}

\* Number.isInteger(v): true of a number without fractional part, and of
\* nothing else (no coercion).
NumberIsInteger(v) == v.t = "int"

\* ToNumber(v) of the relational operators: null is 0, a numeric string is its
\* number, undefined is NaN.  The result is floor + (0.8 if frac).
JsToNumber(v) ==
    CASE v.t = "int" -> [nan |-> FALSE, floor |-> v.n, frac |-> FALSE]
      [] v.t = "float" -> [nan |-> FALSE, floor |-> v.n, frac |-> TRUE]
      [] v.t = "str" -> [nan |-> FALSE, floor |-> v.n, frac |-> FALSE]
      [] v.t = "null" -> [nan |-> FALSE, floor |-> 0, frac |-> FALSE]
      [] OTHER -> [nan |-> TRUE, floor |-> 0, frac |-> FALSE]

\* v > k for an integer k, as JavaScript evaluates it.
JsGreater(v, k) ==
    LET x == JsToNumber(v)
    IN  /\ ~x.nan
        /\ \/ x.floor > k
           \/ x.floor = k /\ x.frac

----------------------------------------------------------------------------
(* createDeepQNetwork.                                                      *)

NetIds == {"online", "target"}

Filters1 == 16
Filters2 == 32
KernelSize == 3
DenseUnits == 256
NumWeights == 8

\* The weight variable i of the network held by n.
VarId(n, i) == <<n, i>>

NoModel == [built |-> FALSE, inputs |-> <<>>, outputs |-> <<>>,
            shapes |-> <<>>, weights |-> <<>>]

NoOutcome == [kind |-> "none"]

\* throw new Error(`Expected <param> to be ..., but got ${got}`)
ThrowError(param, got) == [kind |-> "Error", param |-> param, got |-> got]

\* Output length of conv2d along one axis: kernelSize 3, strides 1 and the
\* library's default padding 'valid'.
ConvOutputLength(len) == len - KernelSize + 1

\* Number of features after the two conv2d layers and flatten().
FlatSize(h, w) ==
    ConvOutputLength(ConvOutputLength(h)) * ConvOutputLength(ConvOutputLength(w))
        * Filters2

\* inputShape of the first layer.
InputShape(h, w, stateFrames) == <<h, w, 2 * stateFrames>>

\* Shapes of the trainable weights, layer by layer: kernel and bias of the two
\* conv2d layers and of the two dense layers.
WeightShapes(h, w, stateFrames, numActions) ==
    << <<KernelSize, KernelSize, InputShape(h, w, stateFrames)[3], Filters1>>,
       <<Filters1>>,
       <<KernelSize, KernelSize, Filters1, Filters2>>,
       <<Filters2>>,
       <<FlatSize(h, w), DenseUnits>>,
       <<DenseUnits>>,
       <<DenseUnits, numActions>>,
       <<numActions>> >>

\* The model tf.sequential() holds after the five add() calls, built in n.
\* A weight tensor of a negative number of elements cannot be allocated: the
\* first dense layer's kernel then throws a RangeError out of add().
BuildModel(n, h, w, stateFrames, numActions) ==
    IF FlatSize(h, w) < 0
    THEN [kind |-> "RangeError"]
    ELSE [kind |-> "model",
          model |-> [built |-> TRUE,
                     inputs |-> << <<"null">> \o InputShape(h, w, stateFrames) >>,
                     outputs |-> << <<"null", numActions>> >>,
                     shapes |-> WeightShapes(h, w, stateFrames, numActions),
                     weights |-> [i \in 1..NumWeights |-> VarId(n, i)]]]

\* The argument checks in another order: width before height.
CheckArgsWidthFirst(h, w, stateFrames, numActions) ==
    IF ~(NumberIsInteger(w) /\ JsGreater(w, 0)) THEN ThrowError("width", w)
    ELSE IF ~(NumberIsInteger(h) /\ JsGreater(h, 0)) THEN ThrowError("height", h)
    ELSE IF ~(NumberIsInteger(stateFrames) /\ JsGreater(stateFrames, 0))
         THEN ThrowError("stateFrames", w)
    ELSE IF ~(NumberIsInteger(numActions) /\ JsGreater(numActions, 1))
         THEN ThrowError("numActions", numActions)
    ELSE NoOutcome

\* The four checks at the head of createDeepQNetwork: the Error thrown, or
\* NoOutcome when all pass.  The stateFrames message prints w.
CheckArgs(h, w, stateFrames, numActions) ==
    IF ~(NumberIsInteger(h) /\ JsGreater(h, 0)) THEN ThrowError("height", h)
    ELSE IF ~(NumberIsInteger(w) /\ JsGreater(w, 0)) THEN ThrowError("width", w)
    ELSE IF ~(NumberIsInteger(stateFrames) /\ JsGreater(stateFrames, 0))
         THEN ThrowError("stateFrames", w)
    ELSE IF ~(NumberIsInteger(numActions) /\ JsGreater(numActions, 1))
         THEN ThrowError("numActions", numActions)
    ELSE NoOutcome

createDeepQNetwork(n, a) ==
    LET err == CheckArgs(a.h, a.w, a.stateFrames, a.numActions)
    IN  IF err # NoOutcome
        THEN err
        ELSE BuildModel(n, a.h.n, a.w.n, a.stateFrames.n, a.numActions.n)

\* Initial value of weight i: a bias (even i) starts at zero, a kernel at a
\* random value, here the seed.
InitialWeight(i, seed) == IF i % 2 = 0 THEN 0 ELSE seed

\* const <n> = createDeepQNetwork(h, w, stateFrames, numActions)
Create(n) ==
    /\ outcome[n] = NoOutcome
    /\ LET r == createDeepQNetwork(n, args)
       IN  /\ outcome' = [outcome EXCEPT ![n] = r]
           /\ IF r.kind = "model"
              THEN \E seed \in 1..MaxSeed :
                     /\ net' = [net EXCEPT ![n] = r.model]
                     /\ heap' = [v \in DOMAIN heap \cup {VarId(n, i) : i \in 1..NumWeights} |->
                                   IF v[1] = n THEN InitialWeight(v[2], seed) ELSE heap[v]]
              ELSE UNCHANGED <<net, heap>>
    /\ UNCHANGED <<args, trains, snap>>
    /\ UNCHANGED <<shVars, uiVars>>

----------------------------------------------------------------------------
(* copyWeights and training.                                                *)

\* model.getWeights(): the values its weight variables hold now.
getWeights(m, hp) == [i \in 1..Len(m.weights) |-> hp[m.weights[i]]]

\* model.setWeights(values): writes values[i] into the model's i-th variable.
setWeights(m, values, hp) ==
    [v \in DOMAIN hp |->
        IF \E i \in 1..Len(m.weights) : m.weights[i] = v
        THEN values[CHOOSE i \in 1..Len(m.weights) : m.weights[i] = v]
        ELSE hp[v]]

NoSnap == <<>>

\* A copy that makes the destination use the source's variables.
copyWeightsAliased(d, s) ==
    /\ net' = [net EXCEPT ![d].weights = net[s].weights]
    /\ heap' = heap
    /\ snap' = [snap EXCEPT ![d] = getWeights(net[s], heap)]

\* A copy that writes the kernels only.
copyWeightsKernelsOnly(d, s) ==
    /\ heap' = setWeights(net[d],
                 [i \in 1..NumWeights |->
                    IF i % 2 = 1 THEN getWeights(net[s], heap)[i]
                    ELSE getWeights(net[d], heap)[i]], heap)
    /\ net' = net
    /\ snap' = [snap EXCEPT ![d] = getWeights(net[d], heap')]

\* copyWeights(destNetwork, srcNetwork)
copyWeightsBody(d, s) ==
    /\ heap' = setWeights(net[d], getWeights(net[s], heap), heap)
    /\ net' = net
    /\ snap' = [snap EXCEPT ![d] = getWeights(net[d], heap')]

copyWeights(d, s) ==
    /\ d # s
    /\ net[d].built /\ net[s].built
    /\ copyWeightsBody(d, s)
    /\ UNCHANGED <<args, outcome, trains>>
    /\ UNCHANGED <<shVars, uiVars>>

\* await <n>.fit(xs, ys, {epochs: 1}): the optimizer assigns a new value to
\* every weight variable of the model.
Fit(n) ==
    /\ net[n].built
    /\ trains[n] < MaxTrain
    /\ trains' = [trains EXCEPT ![n] = @ + 1]
    /\ heap' = setWeights(net[n],
                 [i \in 1..NumWeights |-> getWeights(net[n], heap)[i] + 1], heap)
    /\ snap' = [snap EXCEPT ![n] = NoSnap]
    /\ UNCHANGED <<args, outcome, net>>
    /\ UNCHANGED <<shVars, uiVars>>


----------------------------------------------------------------------------
(* quantize_evaluate.sh: one run.  Every command is one step; an external   *)
(* command ends with status 0 or with a status in 1..MaxStatus.             *)

\* Largest exit status a failing command returns.
MaxStatus == 2

\* The status of `exit 1` in the three prechecks.
PrecheckStatus == 1

\* set -e: the script exits with a failing command's status.
ErrExitOff == FALSE

ErrExit == TRUE

\* [[ -z "${MODEL_NAME}" ]]
NameCheckFails == env.modelName = ""

\* The file test with -e (exists) in place of -f.
JsonCheckExists == ~(env.jsonPath \in {"file", "directory"})

\* [[ ! -f "${MODEL_JSON_PATH}" ]]
JsonCheckFails == ~(env.jsonPath = "file")

\* [[ -z "$(which pip)" ]]
PipCheckFails == ~env.pipOnPath

\* The five quantization and evaluation steps, in the order of the script.
StepOrder == <<"quant16", "quant8", "eval32", "eval16", "eval8">>

Exit(status) ==
    /\ shPc' = "exited"
    /\ exitStatus' = status

Goto(next) ==
    /\ shPc' = next
    /\ exitStatus' = exitStatus

\* What follows a failing command: under set -e the script exits with the
\* command's status, without it the script goes on to the next command.
OnFailure(status, next) == IF ErrExit THEN Exit(status) ELSE Goto(next)

CheckName ==
    /\ shPc = "checkName"
    /\ IF NameCheckFails THEN Exit(PrecheckStatus) ELSE Goto("checkJson")
    /\ UNCHANGED <<env, fsys, installed, log, venvCreated>>
    /\ UNCHANGED <<dqnVars, uiVars>>

CheckJson ==
    /\ shPc = "checkJson"
    /\ IF JsonCheckFails THEN Exit(PrecheckStatus) ELSE Goto("checkPip")
    /\ UNCHANGED <<env, fsys, installed, log, venvCreated>>
    /\ UNCHANGED <<dqnVars, uiVars>>

CheckPip ==
    /\ shPc = "checkPip"
    /\ IF PipCheckFails THEN Exit(PrecheckStatus) ELSE Goto("checkVirtualenv")
    /\ UNCHANGED <<env, fsys, installed, log, venvCreated>>
    /\ UNCHANGED <<dqnVars, uiVars>>

\* if [[ -z "$(which virtualenv)" ]]; then pip install virtualenv; fi
CheckVirtualenv ==
    /\ shPc = "checkVirtualenv"
    /\ IF env.virtualenvOnPath
       THEN Goto("mktemp") /\ installed' = installed
       ELSE \/ Goto("mktemp") /\ installed' = installed \cup {"virtualenv"}
            \/ \E st \in 1..MaxStatus :
                 OnFailure(st, "mktemp") /\ installed' = installed
    /\ UNCHANGED <<env, fsys, log, venvCreated>>
    /\ UNCHANGED <<dqnVars, uiVars>>

\* VENV_DIR="$(mktemp -d)_venv": mktemp creates its own directory; the
\* virtualenv directory is another path, the same name with _venv appended.
Mktemp ==
    /\ shPc = "mktemp"
    /\ \/ Goto("virtualenv") /\ fsys' = [fsys EXCEPT !.tmpDir = "present"]
       \/ \E st \in 1..MaxStatus : OnFailure(st, "virtualenv") /\ fsys' = fsys
    /\ UNCHANGED <<env, installed, log, venvCreated>>
    /\ UNCHANGED <<dqnVars, uiVars>>

\* virtualenv "${VENV_DIR}": creates the directory.  A failing run is taken
\* to leave nothing behind.
Virtualenv ==
    /\ shPc = "virtualenv"
    /\ \/ /\ Goto("activate")
          /\ fsys' = [fsys EXCEPT !.venvDir = "present"]
          /\ venvCreated' = TRUE
       \/ \E st \in 1..MaxStatus :
          /\ OnFailure(st, "activate")
          /\ UNCHANGED <<fsys, venvCreated>>
    /\ UNCHANGED <<env, installed, log>>
    /\ UNCHANGED <<dqnVars, uiVars>>

\* source "${VENV_DIR}/bin/activate": fails when the file is not there.
Activate ==
    /\ shPc = "activate"
    /\ IF fsys.venvDir = "present"
       THEN Goto("pipInstall")
       ELSE \E st \in 1..MaxStatus : OnFailure(st, "pipInstall")
    /\ UNCHANGED <<env, fsys, installed, log, venvCreated>>
    /\ UNCHANGED <<dqnVars, uiVars>>

\* pip install tensorflowjs
PipInstall ==
    /\ shPc = "pipInstall"
    /\ \/ Goto("rm16") /\ installed' = installed \cup {"tensorflowjs"}
       \/ \E st \in 1..MaxStatus : OnFailure(st, "rm16") /\ installed' = installed
    /\ UNCHANGED <<env, fsys, log, venvCreated>>
    /\ UNCHANGED <<dqnVars, uiVars>>

\* rm -rf of the quantized output directory q ("q16" or "q8").
RmQuantized(q, here, next) ==
    /\ shPc = here
    /\ \/ Goto(next) /\ fsys' = [fsys EXCEPT ![q] = "absent"]
       \/ \E st \in 1..MaxStatus : OnFailure(st, next) /\ fsys' = fsys
    /\ UNCHANGED <<env, installed, log, venvCreated>>
    /\ UNCHANGED <<dqnVars, uiVars>>

\* tensorflowjs_converter ... "${MODEL_JSON_PATH}" <q>: writes the quantized
\* model of this run into q when it succeeds.
Convert(q, name, here, next) ==
    /\ shPc = here
    /\ \/ /\ Goto(next)
          /\ fsys' = [fsys EXCEPT ![q] = "fresh"]
          /\ log' = Append(log, [name |-> name, ok |-> TRUE, read |-> fsys[q]])
       \/ \E st \in 1..MaxStatus :
          /\ OnFailure(st, next)
          /\ fsys' = fsys
          /\ log' = Append(log, [name |-> name, ok |-> FALSE, read |-> fsys[q]])
    /\ UNCHANGED <<env, installed, venvCreated>>
    /\ UNCHANGED <<dqnVars, uiVars>>

Rm16 == RmQuantized("q16", "rm16", "convert16")

Convert16 == Convert("q16", "quant16", "convert16", "rm8")

Rm8 == RmQuantized("q8", "rm8", "convert8")

Convert8 == Convert("q8", "quant8", "convert8", "yarn")

\* yarn
Yarn ==
    /\ shPc = "yarn"
    /\ \/ Goto("eval32")
       \/ \E st \in 1..MaxStatus : OnFailure(st, "eval32")
    /\ UNCHANGED <<env, fsys, installed, log, venvCreated>>
    /\ UNCHANGED <<dqnVars, uiVars>>

\* yarn "eval-${MODEL_NAME}" <path>/model.json: reads the model at the path
\* (content is what is there) and fails when there is none.
Eval(content, name, here, next) ==
    /\ shPc = here
    /\ \/ /\ content # "absent"
          /\ Goto(next)
          /\ log' = Append(log, [name |-> name, ok |-> TRUE, read |-> content])
       \/ \E st \in 1..MaxStatus :
          /\ OnFailure(st, next)
          /\ log' = Append(log, [name |-> name, ok |-> FALSE, read |-> content])
    /\ UNCHANGED <<env, fsys, installed, venvCreated>>
    /\ UNCHANGED <<dqnVars, uiVars>>

Eval32 == Eval("original", "eval32", "eval32", "eval16")

Eval16 == Eval(fsys.q16, "eval16", "eval16", "eval8")

Eval8 == Eval(fsys.q8, "eval8", "eval8", "rmVenv")

\* rm -rf "${VENV_DIR}", the last command: its status is the script's.
RmVenv ==
    /\ shPc = "rmVenv"
    /\ \/ Exit(0) /\ fsys' = [fsys EXCEPT !.venvDir = "absent"]
       \/ \E st \in 1..MaxStatus : Exit(st) /\ fsys' = fsys
    /\ UNCHANGED <<env, installed, log, venvCreated>>
    /\ UNCHANGED <<dqnVars, uiVars>>

----------------------------------------------------------------------------
(* The cart-pole UI after setUpUI: the click handlers of the create, delete, *)
(* train and test buttons.  A handler runs from one await to the next in one *)
(* step.  At most one run of each handler is in flight.                      *)

\* Largest number of training iterations entered.
MaxIterations == 2
\* Largest number of steps of a test episode.
MaxSteps == 3

Handlers == {"create", "delete", "train", "test"}

\* policyNet == null (true of undefined as well)
PolicyNetIsNull == policyNet \in {"undefined", "null"}

\* disableUI()
disableUI(dis) == [dis EXCEPT !.train = TRUE, !.test = TRUE, !.delete = TRUE]

\* enableUI()
enableUI(dis) == [dis EXCEPT !.train = FALSE, !.test = FALSE, !.delete = FALSE]

\* updateLocallyStoredModelStatus(), once checkStoredModelStatus() has resolved.
updateLocallyStoredModelStatus(dis) ==
    [train |-> PolicyNetIsNull,
     test |-> PolicyNetIsNull,
     delete |-> ~stored,
     create |-> ~PolicyNetIsNull]

Running == [outcome |-> "running", enableUI |-> FALSE]

\* createModelButton click: parses the hidden layer sizes, builds the network.
ClickCreate ==
    /\ ~disabled.create
    /\ pc.create = "idle"
    /\ \E sizesValid \in BOOLEAN :
         IF sizesValid
         THEN /\ policyNet' = "net"
              /\ pc' = [pc EXCEPT !.create = "status"]
              /\ appStatus' = appStatus
         ELSE /\ appStatus' = "ERROR"
              /\ UNCHANGED <<policyNet, pc>>
    /\ UNCHANGED <<stored, disabled, loop, ran>>
    /\ UNCHANGED <<dqnVars, shVars>>

\* The create handler after its await: the status update, or its rejection
\* caught.
CreateStatus ==
    /\ pc.create = "status"
    /\ pc' = [pc EXCEPT !.create = "idle"]
    /\ \/ /\ disabled' = updateLocallyStoredModelStatus(disabled)
          /\ appStatus' = appStatus
       \/ /\ appStatus' = "ERROR"
          /\ disabled' = disabled
    /\ UNCHANGED <<policyNet, stored, loop, ran>>
    /\ UNCHANGED <<dqnVars, shVars>>

\* deleteStoredModelButton click: confirm(), then policyNet.removeModel(),
\* which throws a TypeError when policyNet is null.
ClickDelete ==
    /\ ~disabled.delete
    /\ pc.delete = "idle"
    /\ \E confirmed \in BOOLEAN :
         IF confirmed /\ ~PolicyNetIsNull
         THEN pc' = [pc EXCEPT !.delete = "removing"]
         ELSE pc' = pc
    /\ UNCHANGED <<policyNet, stored, disabled, loop, appStatus, ran>>
    /\ UNCHANGED <<dqnVars, shVars>>

\* removeModel() resolves (the stored model is gone) or rejects (the handler
\* ends there).
DeleteRemoved ==
    /\ pc.delete = "removing"
    /\ \/ /\ stored' = FALSE
          /\ policyNet' = "null"
          /\ pc' = [pc EXCEPT !.delete = "status"]
       \/ /\ pc' = [pc EXCEPT !.delete = "idle"]
          /\ UNCHANGED <<stored, policyNet>>
    /\ UNCHANGED <<disabled, loop, appStatus, ran>>
    /\ UNCHANGED <<dqnVars, shVars>>

DeleteStatus ==
    /\ pc.delete = "status"
    /\ pc' = [pc EXCEPT !.delete = "idle"]
    /\ \/ disabled' = updateLocallyStoredModelStatus(disabled)
       \/ disabled' = disabled
    /\ UNCHANGED <<policyNet, stored, loop, appStatus, ran>>
    /\ UNCHANGED <<dqnVars, shVars>>

\* The catch block of the train handler and the enableUI() after it.
TrainCatch(dis) ==
    /\ appStatus' = "ERROR"
    /\ disabled' = enableUI(dis)
    /\ pc' = [pc EXCEPT !.train = "idle"]
    /\ ran' = [ran EXCEPT !.train = [outcome |-> "returned", enableUI |-> TRUE]]

\* A call of a method of policyNet inside the try block: a TypeError when
\* policyNet is null, else the handler awaits the promise at `at`.
TrainAwait(dis, at, status) ==
    IF PolicyNetIsNull
    THEN TrainCatch(dis)
    ELSE /\ pc' = [pc EXCEPT !.train = at]
         /\ disabled' = dis
         /\ appStatus' = status
         /\ ran' = [ran EXCEPT !.train = Running]

\* trainButton click: disableUI(), the checks of the inputs, the first call
\* of policyNet.train().
ClickTrain ==
    /\ ~disabled.train
    /\ pc.train = "idle"
    /\ \E trainIterations \in 0..MaxIterations, othersValid \in BOOLEAN :
         IF ~(trainIterations > 0) \/ ~othersValid
         THEN TrainCatch(disableUI(disabled)) /\ loop' = loop
         ELSE /\ loop' = [loop EXCEPT !.i = 0, !.trainIterations = trainIterations]
              /\ TrainAwait(disableUI(disabled), "training",
                            "Training policy network...")
    /\ UNCHANGED <<policyNet, stored>>
    /\ UNCHANGED <<dqnVars, shVars>>

\* policyNet.train() resolves, and the handler awaits tf.nextFrame(); or it
\* rejects.
TrainResolved ==
    /\ pc.train = "training"
    /\ \/ /\ pc' = [pc EXCEPT !.train = "frame"]
          /\ UNCHANGED <<disabled, appStatus, ran>>
       \/ TrainCatch(disabled)
    /\ UNCHANGED <<policyNet, stored, loop>>
    /\ UNCHANGED <<dqnVars, shVars>>

\* After tf.nextFrame(): ++i, then the next iteration or policyNet.saveModel().
TrainFrame ==
    /\ pc.train = "frame"
    /\ loop' = [loop EXCEPT !.i = @ + 1]
    /\ IF loop.i + 1 < loop.trainIterations
       THEN TrainAwait(disabled, "training", appStatus)
       ELSE TrainAwait(disabled, "saving", appStatus)
    /\ UNCHANGED <<policyNet, stored>>
    /\ UNCHANGED <<dqnVars, shVars>>

\* saveModel() resolves, and the handler awaits the status update; or it
\* rejects.
TrainSaved ==
    /\ pc.train = "saving"
    /\ \/ /\ stored' = TRUE
          /\ pc' = [pc EXCEPT !.train = "status"]
          /\ UNCHANGED <<disabled, appStatus, ran>>
       \/ /\ TrainCatch(disabled)
          /\ stored' = stored
    /\ UNCHANGED <<policyNet, loop>>
    /\ UNCHANGED <<dqnVars, shVars>>

\* The status update resolves: 'Training completed.' and enableUI(); or it
\* rejects.
TrainStatus ==
    /\ pc.train = "status"
    /\ \/ /\ disabled' = enableUI(updateLocallyStoredModelStatus(disabled))
          /\ appStatus' = "Training completed."
          /\ pc' = [pc EXCEPT !.train = "idle"]
          /\ ran' = [ran EXCEPT !.train = [outcome |-> "returned", enableUI |-> TRUE]]
       \/ TrainCatch(disabled)
    /\ UNCHANGED <<policyNet, stored, loop>>
    /\ UNCHANGED <<dqnVars, shVars>>

\* One pass of the test loop's body, from steps++ to the await of
\* tf.nextFrame().  policyNet.getLogitsAndActions() throws a TypeError when
\* policyNet is null, and the library may throw; nothing catches it: the
\* handler ends there.  Otherwise cartPole.update() tells whether the episode
\* is over.
TestBody(dis, steps) ==
    /\ steps < MaxSteps
    /\ disabled' = dis
    /\ \/ /\ ~PolicyNetIsNull
          /\ \E done \in BOOLEAN :
               loop' = [loop EXCEPT !.steps = steps + 1, !.isDone = done]
          /\ pc' = [pc EXCEPT !.test = "frame"]
          /\ appStatus' = "Test in progress."
          /\ ran' = [ran EXCEPT !.test = Running]
       \/ /\ loop' = [loop EXCEPT !.steps = steps + 1, !.isDone = FALSE]
          /\ pc' = [pc EXCEPT !.test = "idle"]
          /\ appStatus' = appStatus
          /\ ran' = [ran EXCEPT !.test = [outcome |-> "threw", enableUI |-> FALSE]]

\* testButton click: disableUI(), a new CartPole, the first pass of the loop.
ClickTest ==
    /\ ~disabled.test
    /\ pc.test = "idle"
    /\ TestBody(disableUI(disabled), 0)
    /\ UNCHANGED <<policyNet, stored>>
    /\ UNCHANGED <<dqnVars, shVars>>

\* After tf.nextFrame(): the loop ends when isDone, with enableUI(); else
\* another pass.
TestFrame ==
    /\ pc.test = "frame"
    /\ IF loop.isDone
       THEN /\ appStatus' = "Test finished."
            /\ disabled' = enableUI(disabled)
            /\ pc' = [pc EXCEPT !.test = "idle"]
            /\ ran' = [ran EXCEPT !.test = [outcome |-> "returned", enableUI |-> TRUE]]
            /\ loop' = loop
       ELSE TestBody(disabled, loop.steps)
    /\ UNCHANGED <<policyNet, stored>>
    /\ UNCHANGED <<dqnVars, shVars>>

----------------------------------------------------------------------------

ArgSets ==
    [h : {JsInt(k) : k \in 0..MaxDim} \cup JsOdd,
     w : {JsInt(k) : k \in 0..MaxDim} \cup JsOdd,
     stateFrames : {JsInt(k) : k \in 0..MaxFrames} \cup JsOdd,
     numActions : {JsInt(k) : k \in 0..MaxActions} \cup JsOdd]

InitDqn ==
    /\ args \in ArgSets
    /\ outcome = [n \in NetIds |-> NoOutcome]
    /\ net = [n \in NetIds |-> NoModel]
    /\ heap = <<>>
    /\ trains = [n \in NetIds |-> 0]
    /\ snap = [n \in NetIds |-> NoSnap]

\* The machine before the run: the argument, what is on the path, and the
\* quantized models an earlier run may have left.
Envs ==
    [modelName : {"", "mnist"},
     jsonPath : {"file", "directory", "absent"},
     pipOnPath : BOOLEAN,
     virtualenvOnPath : BOOLEAN,
     q16 : {"absent", "stale"},
     q8 : {"absent", "stale"}]

InitScript ==
    /\ env \in Envs
    /\ shPc = "checkName"
    /\ exitStatus = -1
    /\ fsys = [tmpDir |-> "absent", venvDir |-> "absent",
               q16 |-> env.q16, q8 |-> env.q8]
    /\ installed = {}
    /\ log = <<>>
    /\ venvCreated = FALSE

IdleDqn ==
    /\ args = [h |-> JsInt(0), w |-> JsInt(0), stateFrames |-> JsInt(0),
               numActions |-> JsInt(0)]
    /\ outcome = [n \in NetIds |-> NoOutcome]
    /\ net = [n \in NetIds |-> NoModel]
    /\ heap = <<>>
    /\ trains = [n \in NetIds |-> 0]
    /\ snap = [n \in NetIds |-> NoSnap]

IdleScript ==
    /\ env = [modelName |-> "", jsonPath |-> "absent", pipOnPath |-> FALSE,
              virtualenvOnPath |-> FALSE, q16 |-> "absent", q8 |-> "absent"]
    /\ shPc = "exited"
    /\ exitStatus = -1
    /\ fsys = [tmpDir |-> "absent", venvDir |-> "absent",
               q16 |-> "absent", q8 |-> "absent"]
    /\ installed = {}
    /\ log = <<>>
    /\ venvCreated = FALSE

\* The state setUpUI leaves: the stored model, if any, is loaded into
\* policyNet, and updateLocallyStoredModelStatus() has set the buttons.
InitUI ==
    /\ stored \in BOOLEAN
    /\ policyNet = IF stored THEN "net" ELSE "undefined"
    /\ disabled = [train |-> ~stored, test |-> ~stored, delete |-> ~stored,
                   create |-> stored]
    /\ pc = [h \in Handlers |-> "idle"]
    /\ loop = [i |-> 0, trainIterations |-> 0, steps |-> 0, isDone |-> FALSE]
    /\ appStatus = ""
    /\ ran = [h \in {"train", "test"} |-> [outcome |-> "none", enableUI |-> FALSE]]

IdleUI ==
    /\ stored = FALSE
    /\ policyNet = "undefined"
    /\ disabled = [train |-> TRUE, test |-> TRUE, delete |-> TRUE, create |-> TRUE]
    /\ pc = [h \in Handlers |-> "idle"]
    /\ loop = [i |-> 0, trainIterations |-> 0, steps |-> 0, isDone |-> FALSE]
    /\ appStatus = ""
    /\ ran = [h \in {"train", "test"} |-> [outcome |-> "none", enableUI |-> FALSE]]

Init == InitDqn /\ IdleScript /\ IdleUI

Next ==
    \/ \E n \in NetIds : Create(n)
    \/ \E d, s \in NetIds : copyWeights(d, s)
    \/ \E n \in NetIds : Fit(n)

Spec == Init /\ [][Next]_vars

NextScript ==
    \/ CheckName
    \/ CheckJson
    \/ CheckPip
    \/ CheckVirtualenv
    \/ Mktemp
    \/ Virtualenv
    \/ Activate
    \/ PipInstall
    \/ Rm16
    \/ Convert16
    \/ Rm8
    \/ Convert8
    \/ Yarn
    \/ Eval32
    \/ Eval16
    \/ Eval8
    \/ RmVenv

InitScriptRun == IdleDqn /\ InitScript /\ IdleUI

SpecScript == InitScriptRun /\ [][NextScript]_vars

NextUI ==
    \/ ClickCreate
    \/ CreateStatus
    \/ ClickDelete
    \/ DeleteRemoved
    \/ DeleteStatus
    \/ ClickTrain
    \/ TrainResolved
    \/ TrainFrame
    \/ TrainSaved
    \/ TrainStatus
    \/ ClickTest
    \/ TestFrame

InitUIRun == IdleDqn /\ IdleScript /\ InitUI

SpecUI == InitUIRun /\ [][NextUI]_vars

----------------------------------------------------------------------------
(* Properties of createDeepQNetwork and copyWeights, checked under Spec.    *)

\* C1: after copyWeights(dest, src), a later change of the source network's
\* weights (a training step on src) leaves every weight of the destination
\* equal to the value it had right after the copy.
C1_DestKeepsCopiedWeights ==
    \A d \in NetIds : snap[d] # NoSnap => getWeights(net[d], heap) = snap[d]

\* A destination that still holds the copied weights while its source, trained
\* since the copy, holds others.
C1_Witness ==
    \E d, s \in NetIds :
        /\ d # s
        /\ snap[d] # NoSnap
        /\ trains[s] > 0
        /\ getWeights(net[s], heap) # snap[d]
        /\ getWeights(net[d], heap) = snap[d]

\* C2: right after copyWeights(dest, src) on two networks built with the same
\* arguments, dest has as many weights as before, every weight of dest equals
\* the corresponding weight of src, and the weights of src are those it had
\* before the copy.
C2_CopyMakesWeightsEqual ==
    [][\A d, s \in NetIds :
         copyWeights(d, s) =>
           /\ Len(getWeights(net'[d], heap')) = Len(getWeights(net[d], heap))
           /\ getWeights(net'[d], heap') = getWeights(net'[s], heap')
           /\ getWeights(net'[s], heap') = getWeights(net[s], heap)]_vars

\* A network never trained that holds the weights of a trained one: a copy
\* has written them.
C2_Witness ==
    \E d, s \in NetIds :
        /\ d # s
        /\ snap[d] # NoSnap
        /\ trains[d] = 0
        /\ trains[s] > 0
        /\ getWeights(net[d], heap) = getWeights(net[s], heap)

\* What the documentation of createDeepQNetwork asks of its arguments.
PositiveInteger(v) == v.t = "int" /\ v.n > 0

IntegerAboveOne(v) == v.t = "int" /\ v.n > 1

\* The first argument, in the order height, width, stateFrames, numActions,
\* that is not valid; "none" when all are.
FirstInvalid(a) ==
    IF ~PositiveInteger(a.h) THEN "height"
    ELSE IF ~PositiveInteger(a.w) THEN "width"
    ELSE IF ~PositiveInteger(a.stateFrames) THEN "stateFrames"
    ELSE IF ~IntegerAboveOne(a.numActions) THEN "numActions"
    ELSE "none"

\* C3: createDeepQNetwork throws an Error and builds no model whenever an
\* argument is invalid, and the message names the first invalid argument in
\* the order height, width, stateFrames, numActions, whatever the later ones.
C3_InvalidArgsThrow ==
    \A n \in NetIds :
        outcome[n] # NoOutcome /\ FirstInvalid(args) # "none" =>
            /\ outcome[n].kind = "Error"
            /\ outcome[n].param = FirstInvalid(args)
            /\ ~net[n].built
            /\ \A i \in 1..NumWeights : VarId(n, i) \notin DOMAIN heap

\* A call that threw for the height while the width was invalid as well.
C3_Witness ==
    \E n \in NetIds :
        /\ outcome[n] # NoOutcome
        /\ outcome[n].kind = "Error"
        /\ outcome[n].param = "height"
        /\ ~PositiveInteger(args.w)
        /\ ~IntegerAboveOne(args.numActions)

\* C4: for every valid (h, w, stateFrames, numActions), createDeepQNetwork
\* returns a model with exactly one input of shape [null, h, w, 2 * stateFrames]
\* and exactly one output of shape [null, numActions].
C4_ValidArgsReturnModel ==
    \A n \in NetIds :
        outcome[n] # NoOutcome /\ FirstInvalid(args) = "none" =>
            /\ outcome[n].kind = "model"
            /\ net[n].inputs =
                 << <<"null", args.h.n, args.w.n, 2 * args.stateFrames.n>> >>
            /\ net[n].outputs = << <<"null", args.numActions.n>> >>

\* What does hold of the shapes: every model that createDeepQNetwork returns
\* has that one input and that one output, and it returns one for every board
\* of at least 5 by 5.
ReturnedModelShapes ==
    \A n \in NetIds :
        outcome[n] # NoOutcome /\ FirstInvalid(args) = "none" =>
            /\ (args.h.n >= 5 /\ args.w.n >= 5) => outcome[n].kind = "model"
            /\ outcome[n].kind = "model" =>
                 /\ net[n].inputs =
                      << <<"null", args.h.n, args.w.n, 2 * args.stateFrames.n>> >>
                 /\ net[n].outputs = << <<"null", args.numActions.n>> >>

----------------------------------------------------------------------------
(* Properties of quantize_evaluate.sh, checked under SpecScript.            *)

\* A precheck fails on this machine.
PrecheckFailed ==
    \/ env.modelName = ""
    \/ env.jsonPath # "file"
    \/ ~env.pipOnPath

\* C5: when a precheck fails (MODEL_NAME empty, model.json not a file, pip not
\* on the path) the script exits with status 1, and it has created no
\* virtualenv, installed nothing, deleted no directory, and run neither the
\* converter nor an evaluation.
C5_PrecheckExits ==
    PrecheckFailed =>
        /\ shPc \in {"checkName", "checkJson", "checkPip", "exited"}
        /\ shPc = "exited" => exitStatus = 1
        /\ fsys = [tmpDir |-> "absent", venvDir |-> "absent",
                   q16 |-> env.q16, q8 |-> env.q8]
        /\ installed = {}
        /\ log = <<>>
        /\ ~venvCreated

\* A run given a model name whose model.json path is a directory, exited
\* with status 1 while quantized models of an earlier run are still there.
C5_Witness ==
    /\ env.modelName # ""
    /\ env.jsonPath = "directory"
    /\ env.pipOnPath
    /\ shPc = "exited"
    /\ exitStatus = 1
    /\ fsys.q16 = "stale"

\* C6: the steps run in the order 16-bit quantization, 8-bit quantization,
\* evaluation of the original, of the 16-bit and of the 8-bit model; a step
\* starts only if every earlier step succeeded; a quantized output directory
\* is deleted before it is regenerated, and no evaluation reads a quantized
\* model left by an earlier run.
C6_StepsInOrder ==
    /\ Len(log) <= Len(StepOrder)
    /\ \A i \in 1..Len(log) :
        /\ log[i].name = StepOrder[i]
        /\ \A j \in 1..(i - 1) : log[j].ok
        /\ log[i].name \in {"quant16", "quant8"} => log[i].read = "absent"
        /\ log[i].name \in {"eval16", "eval8"} => log[i].read # "stale"

\* A run over quantized models left by an earlier run that got as far as
\* evaluating the 8-bit model, each evaluation reading this run's output.
C6_Witness ==
    /\ env.q16 = "stale"
    /\ env.q8 = "stale"
    /\ Len(log) = Len(StepOrder)
    /\ log[4].read = "fresh"
    /\ log[5].read = "fresh"
    /\ log[5].ok

\* C7: on every run that created the virtualenv directory, the directory no
\* longer exists when the script exits, also when the installation, a
\* conversion or an evaluation fails.
C7_VenvRemovedAtExit ==
    shPc = "exited" /\ venvCreated => fsys.venvDir = "absent"

----------------------------------------------------------------------------
(* Property of the cart-pole UI, checked under SpecUI.                      *)

\* C8: every run of the train handler and of the test handler reaches
\* enableUI(), when the run completes and when a step of it throws: the buttons
\* disabled by disableUI() are enabled again.
C8_RunsReachEnableUI ==
    \A h \in {"train", "test"} :
        ran[h].outcome \in {"returned", "threw"} => ran[h].enableUI

====
